---- MODULE Spec2Model ----
(***************************************************************************)
(* Avocado Explorer (src/app.py): load a table, resolve the five logical   *)
(* columns, compose the row mask from the sidebar controls, and compute    *)
(* the KPIs, the two grouped aggregates and the CSV export.                *)
(*                                                                         *)
(* Representation.  A DataFrame is [columns, rows]: columns is the header  *)
(* sequence, rows a sequence of functions from the headers to values.      *)
(* Dates are day numbers, region names are represented by their rank in    *)
(* alphabetical order (sorted() and groupby order them that way), prices   *)
(* and volumes are integers, and so are the type names (rank in          *)
(* alphabetical order; All is the "All" entry of the type selectbox).     *)
(* A missing value (NaN / NaT) is NA.                                      *)
(* A mean is kept as the pair (sum, n) it is the quotient of; n = 0 is     *)
(* the NaN mean of an empty selection.                                     *)
(***************************************************************************)
EXTENDS Integers, Sequences, FiniteSets, TLC

(* ---------------------------- bounds ---------------------------------- *)
MaxRows == 3
MaxDate == 2
WideRows == 22

(* --------------------------- program constants ------------------------ *)
DefaultRegions == 3
ChartTop == 20

(* ----------------------- values and headers --------------------------- *)
NA == -1
BadBound == -2
NoCol == "<None>"
All == 0


AllHeaders == <<"Date", "AveragePrice", "Total Volume", "type", "region">>

lower(c) ==
  CASE c = "Date" -> "date"
    [] c = "AveragePrice" -> "averageprice"
    [] c = "Total Volume" -> "total volume"
    [] OTHER -> c

Range(s) == {s[i] : i \in 1..Len(s)}

SubSeqOf(s, keep) ==
  LET RECURSIVE go(_)
      go(i) == IF i > Len(s) THEN <<>>
               ELSE (IF keep[i] THEN <<s[i]>> ELSE <<>>) \o go(i + 1)
  IN go(1)

(* sorted(): ascending sequence of a finite set of integers *)
sorted(S) ==
  LET RECURSIVE go(_)
      go(T) == IF T = {} THEN <<>>
               ELSE LET m == CHOOSE x \in T : \A y \in T : x <= y
                    IN <<m>> \o go(T \ {m})
  IN go(S)

head(s, n) == IF Len(s) <= n THEN s ELSE SubSeq(s, 1, n)

(* ------------------------------ find_col ------------------------------ *)
find_col(d, name) ==
  LET RECURSIVE go(_)
      go(i) == IF i > Len(d.columns) THEN NoCol
               ELSE IF lower(d.columns[i]) = lower(name) THEN d.columns[i]
               ELSE go(i + 1)
  IN go(1)

Or(a, b) == IF a # NoCol THEN a ELSE b

date_col(d) == find_col(d, "Date")
type_col(d) == find_col(d, "type")
region_col(d) == find_col(d, "region")
avg_price_col(d) == Or(find_col(d, "AveragePrice"), find_col(d, "averageprice"))
total_vol_col(d) == Or(find_col(d, "Total Volume"), find_col(d, "total volume"))

(* ------------------------------ load_data ----------------------------- *)
(* The records source files are made of; a source file is a run of       *)
(* consecutive records of this list (wrapping around).                    *)
SampleRows ==
  << [Date |-> 1,  AveragePrice |-> 1,  TotalVolume |-> 10, type |-> 1,  region |-> 2],
     [Date |-> 2,  AveragePrice |-> 3,  TotalVolume |-> 20, type |-> 2,  region |-> 1],
     [Date |-> 2,  AveragePrice |-> 2,  TotalVolume |-> 30, type |-> 2,  region |-> 2],
     [Date |-> 1,  AveragePrice |-> 3,  TotalVolume |-> 30, type |-> 1,  region |-> 1],
     [Date |-> NA, AveragePrice |-> 2,  TotalVolume |-> NA, type |-> NA, region |-> 2],
     [Date |-> 1,  AveragePrice |-> NA, TotalVolume |-> 20, type |-> 2,  region |-> NA] >>

Cell(r, c) ==
  CASE c = "Date" -> r.Date
    [] c = "AveragePrice" -> r.AveragePrice
    [] c = "Total Volume" -> r.TotalVolume
    [] c = "type" -> r.type
    [] c = "region" -> r.region

HeaderChoices ==
  {SubSeqOf(AllHeaders, keep) : keep \in [1..Len(AllHeaders) -> BOOLEAN]}

Frame(cols, recs) ==
  [columns |-> cols,
   rows |-> [i \in 1..Len(recs) |-> [c \in Range(cols) |-> Cell(recs[i], c)]]]

Records(off, n) ==
  [i \in 1..n |-> SampleRows[((i + off - 1) % Len(SampleRows)) + 1]]

(* a source with more regions than the volume chart shows *)
WideRecords(off) ==
  [i \in 1..WideRows |->
     [Records(off, WideRows)[i] EXCEPT !.region = ((i - 1) % (ChartTop + 1)) + 1]]

Offsets == 0..(Len(SampleRows) - 1)

load_data ==
  {Frame(cols, Records(off, n)) : cols \in HeaderChoices, off \in Offsets, n \in 0..MaxRows}
  \cup {Frame(AllHeaders, WideRecords(off)) : off \in Offsets}

(* --------------------------- sidebar controls ------------------------- *)
None == [isNone |-> TRUE, val |-> <<>>]
Some(v) == [isNone |-> FALSE, val |-> v]

Column(d, c) == [i \in 1..Len(d.rows) |-> d.rows[i][c]]

(* df[c].dropna().unique() *)
dropna_unique(d, c) == Range(Column(d, c)) \ {NA}

regions(d) == sorted(dropna_unique(d, region_col(d)))
types(d) == sorted(dropna_unique(d, type_col(d)))

min_date(d) ==
  LET S == dropna_unique(d, date_col(d))
  IN IF S = {} THEN NA ELSE CHOOSE x \in S : \A y \in S : x <= y

max_date(d) ==
  LET S == dropna_unique(d, date_col(d))
  IN IF S = {} THEN NA ELSE CHOOSE x \in S : \A y \in S : x >= y

(* variant: an empty selection in place of None *)
default_sel_regions_empty(d) ==
  IF region_col(d) # NoCol THEN Some(Range(head(regions(d), DefaultRegions))) ELSE Some({})

default_sel_regions(d) ==
  IF region_col(d) # NoCol THEN Some(Range(head(regions(d), DefaultRegions))) ELSE None

default_sel_type(d) == All

(* value=(min_date, max_date); both are NaT (NA) when no date parsed, and *)
(* the pair is then passed on as the widget's value like any other       *)
default_dr(d) ==
  IF date_col(d) # NoCol THEN Some(<<min_date(d), max_date(d)>>) ELSE None

(* Values the widgets can hand back.  A multiselect returns any subset of *)
(* its options; with many options the choices taken are none, all, and    *)
(* the default.  A date_input holding a range returns a tuple of 0, 1 or  *)
(* 2 bounds while the user is picking; BadBound stands for a bound that   *)
(* pd.to_datetime rejects.                                                *)
RegionChoices(d) ==
  LET opts == Range(regions(d))
  IN IF Cardinality(opts) <= DefaultRegions
     THEN SUBSET opts
     ELSE {{}, opts, Range(head(regions(d), DefaultRegions))}

TypeChoices(d) == Range(<<All>> \o types(d))

BoundVals == (1..MaxDate) \cup {BadBound}

DateChoices == UNION {[1..n -> BoundVals] : n \in 0..2}

(* ------------------------------ filtering ----------------------------- *)
AllTrue(d) == [i \in 1..Len(d.rows) |-> TRUE]

(* variant: | in place of & *)
And_or(m1, m2) == [i \in 1..Len(m1) |-> m1[i] \/ m2[i]]

And(m1, m2) == [i \in 1..Len(m1) |-> m1[i] /\ m2[i]]

isin(col, S) == [i \in 1..Len(col) |-> col[i] \in S]

eq(col, v) == [i \in 1..Len(col) |-> col[i] # NA /\ col[i] = v]

ge(col, v) == [i \in 1..Len(col) |-> col[i] # NA /\ v # NA /\ col[i] >= v]

(* variant: >= in place of <= *)
le_as_ge(col, v) == [i \in 1..Len(col) |-> col[i] # NA /\ v # NA /\ col[i] >= v]

le(col, v) == [i \in 1..Len(col) |-> col[i] # NA /\ v # NA /\ col[i] <= v]

(* variant: a bound that does not parse is compared as it is *)
to_datetime_never_raises(v) == FALSE

to_datetime_raises(v) == v = BadBound

region_applies(sr, rc) == ~sr.isNone /\ sr.val # {} /\ rc # NoCol

(* sel_type is an entry of the selectbox, a non-empty string: always truthy *)
type_applies(st, tc) == tc # NoCol /\ st # All

date_applies(r, dc) == ~r.isNone /\ Len(r.val) > 0 /\ dc # NoCol

(* start, end = dr *)
unpack_raises(r, dc) == date_applies(r, dc) /\ Len(r.val) # 2

(* variant: the region predicate is left out of the mask *)
filt_region_skipped(d, rc, sr, m) == m

filt_region(d, rc, sr, m) ==
  IF region_applies(sr, rc) THEN And(m, isin(Column(d, rc), sr.val)) ELSE m

filt_type(d, tc, st, m) ==
  IF type_applies(st, tc) THEN And(m, eq(Column(d, tc), st)) ELSE m

(* variant: rows without a date pass the range test *)
filt_date_keeps_missing(d, dc, r, m) ==
  IF date_applies(r, dc)
  THEN LET start == r.val[1]
           end == r.val[2]
       IN IF to_datetime_raises(start) \/ to_datetime_raises(end)
          THEN m
          ELSE [i \in 1..Len(m) |->
                  m[i] /\ (\/ d.rows[i][dc] = NA
                           \/ (ge(Column(d, dc), start)[i] /\ le(Column(d, dc), end)[i]))]
  ELSE m

filt_date(d, dc, r, m) ==
  IF date_applies(r, dc)
  THEN LET start == r.val[1]
           end == r.val[2]
       IN IF to_datetime_raises(start) \/ to_datetime_raises(end)
          THEN m
          ELSE And(And(m, ge(Column(d, dc), start)), le(Column(d, dc), end))
  ELSE m

filt(d, rc, tc, dc, sr, st, r) ==
  filt_date(d, dc, r, filt_type(d, tc, st, filt_region(d, rc, sr, AllTrue(d))))

(* variant: the selection comes out in reverse row order *)
Take_reversed(d, m) ==
  LET sel == SubSeqOf(d.rows, m)
  IN [columns |-> d.columns, rows |-> [i \in 1..Len(sel) |-> sel[Len(sel) + 1 - i]]]

Take(d, m) == [columns |-> d.columns, rows |-> SubSeqOf(d.rows, m)]

(* ----------------------------- aggregation ---------------------------- *)
(* Series.sum(): missing values are skipped *)
sum(col) ==
  LET RECURSIVE go(_)
      go(i) == IF i > Len(col) THEN 0
               ELSE (IF col[i] = NA THEN 0 ELSE col[i]) + go(i + 1)
  IN go(1)

(* Series.count(): number of values that are not missing *)
count(col) ==
  LET RECURSIVE go(_)
      go(i) == IF i > Len(col) THEN 0
               ELSE (IF col[i] = NA THEN 0 ELSE 1) + go(i + 1)
  IN go(1)

mean(col) == [sum |-> sum(col), n |-> count(col)]

(* variant: no row is dropped *)
dropna_nothing(d, cols) == d

(* DataFrame.dropna(subset=cols) *)
dropna(d, cols) ==
  Take(d, [i \in 1..Len(d.rows) |-> \A c \in cols : d.rows[i][c] # NA])

(* the rows of one group of groupby(key) *)
group(d, key, k) == Take(d, eq(Column(d, key), k))

(* groupby(key)[c].mean().reset_index(): keys ascending, missing keys dropped *)
groupby_mean(d, key, c) ==
  LET keys == sorted(dropna_unique(d, key))
  IN [j \in 1..Len(keys) |->
        LET m == mean(Column(group(d, key, keys[j]), c))
        IN [key |-> keys[j], sum |-> m.sum, n |-> m.n]]

(* groupby(key)[c].sum().reset_index() *)
groupby_sum(d, key, c) ==
  LET keys == sorted(dropna_unique(d, key))
  IN [j \in 1..Len(keys) |->
        [key |-> keys[j], sum |-> sum(Column(group(d, key, keys[j]), c))]]

(* variant: ascending order *)
sort_values_asc(s, tie) ==
  LET insert(acc, x) ==
        LET before == {i \in 1..Len(acc) :
                          \/ acc[i].sum < x.sum
                          \/ (acc[i].sum = x.sum /\ ~tie)}
            p == Cardinality(before)
        IN SubSeq(acc, 1, p) \o <<x>> \o SubSeq(acc, p + 1, Len(acc))
      RECURSIVE go(_, _)
      go(i, acc) == IF i > Len(s) THEN acc ELSE go(i + 1, insert(acc, s[i]))
  IN go(1, <<>>)

(* sort_values(c, ascending=False): the default sort is not stable, so    *)
(* equal sums come out in either order (tie picks one).                   *)
sort_values_desc(s, tie) ==
  LET insert(acc, x) ==
        LET before == {i \in 1..Len(acc) :
                          \/ acc[i].sum > x.sum
                          \/ (acc[i].sum = x.sum /\ ~tie)}
            p == Cardinality(before)
        IN SubSeq(acc, 1, p) \o <<x>> \o SubSeq(acc, p + 1, Len(acc))
      RECURSIVE go(_, _)
      go(i, acc) == IF i > Len(s) THEN acc ELSE go(i + 1, insert(acc, s[i]))
  IN go(1, <<>>)

(* ------------------------------ to_csv_bytes -------------------------- *)
(* a missing value is written as an empty field *)
field(v) == IF v = NA THEN <<>> ELSE <<v>>

to_csv_bytes(d) ==
  <<d.columns>> \o
  [i \in 1..Len(d.rows) |-> [j \in 1..Len(d.columns) |-> field(d.rows[i][d.columns[j]])]]

(* --------------------------------- main ------------------------------- *)
Nothing(st) ==
  [status |-> st,
   filtered |-> [columns |-> <<>>, rows |-> <<>>],
   kpi_price |-> [na |-> TRUE, sum |-> 0, n |-> 0],
   kpi_volume |-> [na |-> TRUE, sum |-> 0],
   kpi_rows |-> 0,
   agg |-> <<>>, ts_info |-> FALSE,
   vol |-> <<>>, vol_info |-> FALSE,
   csv_bytes |-> <<>>]

kpi_price(f, apc) ==
  IF apc \in Range(f.columns)
  THEN LET m == mean(Column(f, apc)) IN [na |-> FALSE, sum |-> m.sum, n |-> m.n]
  ELSE [na |-> TRUE, sum |-> 0, n |-> 0]

kpi_volume(f, tvc) ==
  IF tvc \in Range(f.columns)
  THEN [na |-> FALSE, sum |-> sum(Column(f, tvc))]
  ELSE [na |-> TRUE, sum |-> 0]

(* variant: dropna() without the subset *)
trends_dropna_all(f, dc, apc) ==
  IF dc # NoCol /\ apc # NoCol
  THEN LET ts == dropna(f, Range(f.columns))
       IN IF ts.rows # <<>> THEN groupby_mean(ts, dc, apc) ELSE <<>>
  ELSE <<>>

trends(f, dc, apc) ==
  IF dc # NoCol /\ apc # NoCol
  THEN LET ts == dropna(f, {dc, apc})
       IN IF ts.rows # <<>> THEN groupby_mean(ts, dc, apc) ELSE <<>>
  ELSE <<>>

volume_by_region(f, rc, tvc, tie) ==
  IF rc # NoCol /\ tvc # NoCol
  THEN head(sort_values_desc(groupby_sum(f, rc, tvc), tie), ChartTop)
  ELSE <<>>

main(d, sr, st, r, tie) ==
  LET dc == date_col(d)
      tc == type_col(d)
      rc == region_col(d)
      apc == avg_price_col(d)
      tvc == total_vol_col(d)
  IN IF Len(d.rows) = 0 THEN Nothing("error")
     ELSE IF unpack_raises(r, dc) THEN Nothing("raised")
     ELSE LET filtered == Take(d, filt(d, rc, tc, dc, sr, st, r))
          IN [status |-> "done",
              filtered |-> filtered,
              kpi_price |-> kpi_price(filtered, apc),
              kpi_volume |-> kpi_volume(filtered, tvc),
              kpi_rows |-> Len(filtered.rows),
              agg |-> trends(filtered, dc, apc),
              ts_info |-> ~(dc # NoCol /\ apc # NoCol),
              vol |-> volume_by_region(filtered, rc, tvc, tie),
              vol_info |-> ~(rc # NoCol /\ tvc # NoCol),
              csv_bytes |-> to_csv_bytes(filtered)]

(* ------------------------------- the session -------------------------- *)
VARIABLES df, sel_regions, sel_type, dr, out

vars == <<df, sel_regions, sel_type, dr, out>>

(* one pass of main(): the outcomes differ only in the order sort_values   *)
(* leaves equal sums in                                                   *)
Outcomes(d, sr, st, r) ==
  LET o == main(d, sr, st, r, FALSE)
  IN IF o.status = "done"
     THEN {o, [o EXCEPT !.vol =
                  volume_by_region(o.filtered, region_col(d), total_vol_col(d), TRUE)]}
     ELSE {o}

Init ==
  /\ df \in load_data
  /\ sel_regions = default_sel_regions(df)
  /\ sel_type = default_sel_type(df)
  /\ dr = default_dr(df)
  /\ out \in Outcomes(df, sel_regions, sel_type, dr)

(* the sidebar widgets exist once main() got past the empty-data check *)
Widgets == Len(df.rows) # 0

SelectRegions ==
  /\ Widgets /\ region_col(df) # NoCol
  /\ \E S \in RegionChoices(df) :
        /\ sel_regions' = Some(S)
        /\ out' \in Outcomes(df, sel_regions', sel_type, dr)
  /\ UNCHANGED <<df, sel_type, dr>>

SelectType ==
  /\ Widgets /\ type_col(df) # NoCol
  /\ \E t \in TypeChoices(df) :
        /\ sel_type' = t
        /\ out' \in Outcomes(df, sel_regions, sel_type', dr)
  /\ UNCHANGED <<df, sel_regions, dr>>

SelectDates ==
  /\ Widgets /\ date_col(df) # NoCol
  /\ \E r \in DateChoices :
        /\ dr' = Some(r)
        /\ out' \in Outcomes(df, sel_regions, sel_type, dr')
  /\ UNCHANGED <<df, sel_regions, sel_type>>

Next == SelectRegions \/ SelectType \/ SelectDates

Spec == Init /\ [][Next]_vars

(* ======================= properties of the session ==================== *)
Done == out.status = "done"

FRows == out.filtered.rows

PairOfDates == ~dr.isNone /\ Len(dr.val) = 2

Parseable(v) == v # BadBound

(* a is b with some elements left out, the others in b's order *)
IsSubseq(a, b) ==
  LET RECURSIVE go(_, _)
      go(i, j) == IF i > Len(a) THEN TRUE
                  ELSE IF j > Len(b) THEN FALSE
                  ELSE IF a[i] = b[j] THEN go(i + 1, j + 1)
                  ELSE go(i, j + 1)
  IN go(1, 1)

(* the predicates of the filter step, row by row *)
RegionActive == region_col(df) # NoCol /\ ~sel_regions.isNone /\ sel_regions.val # {}

TypeActive == type_col(df) # NoCol /\ sel_type # All

DateActive ==
  /\ date_col(df) # NoCol
  /\ PairOfDates
  /\ Parseable(dr.val[1]) /\ Parseable(dr.val[2])

RegionHolds(r) == r[region_col(df)] \in sel_regions.val

TypeHolds(r) == r[type_col(df)] = sel_type

DateHolds(r) ==
  /\ r[date_col(df)] # NA
  /\ dr.val[1] # NA /\ dr.val[2] # NA
  /\ dr.val[1] <= r[date_col(df)]
  /\ r[date_col(df)] <= dr.val[2]

RowsWhere(P(_)) == SubSeqOf(df.rows, [i \in 1..Len(df.rows) |-> P(df.rows[i])])

(* C1: the FilteredView is a subsequence of the Dataset's rows (a subset, *)
(* in the Dataset's order) and has exactly the Dataset's columns.         *)
C1_SubsetInOrder ==
  Done => /\ out.filtered.columns = df.columns
          /\ IsSubseq(FRows, df.rows)
          /\ \A i \in 1..Len(FRows) : DOMAIN FRows[i] = Range(df.columns)

C1_Witness ==
  /\ Done
  /\ Len(FRows) >= 2
  /\ Len(FRows) < Len(df.rows)

(* C2 as stated: a date range with start after end, or with a bound that  *)
(* does not parse, leaves the FilteredView as the region and type         *)
(* predicates alone select it.                                            *)
OtherPredicatesOnly ==
  RowsWhere(LAMBDA r : /\ RegionActive => RegionHolds(r)
                       /\ TypeActive => TypeHolds(r))

C2_Original ==
  (/\ Done /\ date_col(df) # NoCol /\ PairOfDates
   /\ \/ ~Parseable(dr.val[1]) \/ ~Parseable(dr.val[2])
      \/ dr.val[1] > dr.val[2])
  => FRows = OtherPredicatesOnly

(* C2 amended: a bound that does not parse makes the date predicate a     *)
(* no-op; a range of two parseable bounds with start after end is applied *)
(* and selects no row.                                                    *)
C2_BadBoundSkipped ==
  (Done /\ date_col(df) # NoCol /\ PairOfDates)
  => /\ (~Parseable(dr.val[1]) \/ ~Parseable(dr.val[2]))
          => FRows = OtherPredicatesOnly
     /\ (Parseable(dr.val[1]) /\ Parseable(dr.val[2]) /\ dr.val[1] > dr.val[2])
          => FRows = <<>>

C2_Witness ==
  /\ Done /\ date_col(df) # NoCol /\ PairOfDates
  /\ ~Parseable(dr.val[2])
  /\ \E i \in 1..Len(FRows) : FRows[i][date_col(df)] = NA
  /\ \E i \in 1..Len(FRows) : FRows[i][date_col(df)] # NA

(* C3: a row is in the FilteredView exactly when it satisfies every       *)
(* predicate that applies; no predicate selects every row; the type       *)
(* selection All takes the type predicate out.                            *)
C3_MaskIsConjunction ==
  Done => FRows = RowsWhere(LAMBDA r : /\ RegionActive => RegionHolds(r)
                                       /\ TypeActive => TypeHolds(r)
                                       /\ DateActive => DateHolds(r))

C3_Witness ==
  /\ Done /\ RegionActive /\ TypeActive /\ DateActive
  /\ FRows # <<>>
  /\ Len(FRows) < Len(df.rows)

(* C4 as stated: with the region column resolved, every row of the        *)
(* FilteredView has its region in the selected set, whatever the set.     *)
C4_Original ==
  (Done /\ region_col(df) # NoCol)
  => \A i \in 1..Len(FRows) : FRows[i][region_col(df)] \in sel_regions.val

(* C4 amended: that holds for every selected set that is not empty; an    *)
(* empty selection applies no region predicate.                           *)
C4_NonEmptySelection ==
  (Done /\ region_col(df) # NoCol /\ sel_regions.val # {})
  => \A i \in 1..Len(FRows) : FRows[i][region_col(df)] \in sel_regions.val

(* regions West, East, West, selection {West}: the two West rows *)
C4_Witness ==
  /\ Done /\ region_col(df) # NoCol
  /\ Len(df.rows) = 3
  /\ df.rows[1][region_col(df)] = 2
  /\ df.rows[2][region_col(df)] = 1
  /\ df.rows[3][region_col(df)] = 2
  /\ sel_regions.val = {2}
  /\ FRows = <<df.rows[1], df.rows[3]>>

(* C5: under a date range [s, e] of two dates with s <= e, every date in  *)
(* the FilteredView lies in [s, e].                                       *)
ValidRange ==
  /\ date_col(df) # NoCol /\ PairOfDates
  /\ Parseable(dr.val[1]) /\ Parseable(dr.val[2])
  /\ dr.val[1] # NA /\ dr.val[2] # NA
  /\ dr.val[1] <= dr.val[2]

C5_DatesInRange ==
  (Done /\ ValidRange)
  => \A i \in 1..Len(FRows) :
        FRows[i][date_col(df)] # NA
        => /\ dr.val[1] <= FRows[i][date_col(df)]
           /\ FRows[i][date_col(df)] <= dr.val[2]

C5_Witness ==
  /\ Done /\ ValidRange
  /\ FRows # <<>>
  /\ \E i \in 1..Len(df.rows) :
        /\ df.rows[i][date_col(df)] # NA
        /\ \/ df.rows[i][date_col(df)] > dr.val[2]
           \/ df.rows[i][date_col(df)] < dr.val[1]

(* C6: when no header resolves to region, there is no region control and  *)
(* the FilteredView is the one any region selection would give.           *)
AnyRegions == SUBSET (1..DefaultRegions)

C6_NoRegionColumn ==
  region_col(df) = NoCol
  => /\ sel_regions.isNone
     /\ Done => \A S \in AnyRegions :
                  \A o \in Outcomes(df, Some(S), sel_type, dr) :
                     /\ o.status = "done"
                     /\ o.filtered = out.filtered

C6_Witness ==
  /\ region_col(df) = NoCol
  /\ Done
  /\ FRows # <<>>
  /\ Len(FRows) < Len(df.rows)

(* sum of f over a finite set *)
SumOver(S, f(_)) ==
  LET RECURSIVE go(_)
      go(T) == IF T = {} THEN 0
               ELSE LET x == CHOOSE y \in T : TRUE IN f(x) + go(T \ {x})
  IN go(S)

Min(a, b) == IF a <= b THEN a ELSE b

(* C7: the region-volume aggregate has one entry per region of the        *)
(* FilteredView up to the chart's limit, each the sum of that region's    *)
(* volumes, in descending order of the sums, and no region left out has a *)
(* larger sum than one that is shown.                                     *)
ViewRegions == {FRows[i][region_col(df)] : i \in 1..Len(FRows)} \ {NA}

RegionVolume(g) ==
  SumOver({i \in 1..Len(FRows) : FRows[i][region_col(df)] = g},
          LAMBDA i : IF FRows[i][total_vol_col(df)] = NA THEN 0
                     ELSE FRows[i][total_vol_col(df)])

Shown == {out.vol[j].key : j \in 1..Len(out.vol)}

C7_RegionVolume ==
  (Done /\ region_col(df) # NoCol /\ total_vol_col(df) # NoCol)
  => /\ Len(out.vol) = Min(Cardinality(ViewRegions), ChartTop)
     /\ Cardinality(Shown) = Len(out.vol)
     /\ Shown \subseteq ViewRegions
     /\ \A j \in 1..Len(out.vol) : out.vol[j].sum = RegionVolume(out.vol[j].key)
     /\ \A j, k \in 1..Len(out.vol) : j < k => out.vol[j].sum >= out.vol[k].sum
     /\ \A g \in ViewRegions \ Shown :
           \A j \in 1..Len(out.vol) : RegionVolume(g) <= out.vol[j].sum

C7_Witness ==
  /\ Done /\ region_col(df) # NoCol /\ total_vol_col(df) # NoCol
  /\ Cardinality(ViewRegions) > ChartTop
  /\ Len(out.vol) = ChartTop
  /\ \E j \in 1..Len(out.vol) :
        Cardinality({i \in 1..Len(FRows) : FRows[i][region_col(df)] = out.vol[j].key}) >= 2
  /\ ViewRegions \ Shown # {}
  /\ out.vol[1].sum > out.vol[Len(out.vol)].sum

(* C8: the time series has one entry per date among the rows of the       *)
(* FilteredView that have a date and a price, each the mean of those      *)
(* rows' prices, in strictly ascending date order; it is empty when a     *)
(* column is unresolved or no such row exists.                            *)
Priced ==
  IF date_col(df) # NoCol /\ avg_price_col(df) # NoCol
  THEN {i \in 1..Len(FRows) : /\ FRows[i][date_col(df)] # NA
                              /\ FRows[i][avg_price_col(df)] # NA}
  ELSE {}

PricedOn(day) == {i \in Priced : FRows[i][date_col(df)] = day}

C8_TimeSeries ==
  Done
  => /\ Len(out.agg) = Cardinality({FRows[i][date_col(df)] : i \in Priced})
     /\ \A j, k \in 1..Len(out.agg) : j < k => out.agg[j].key < out.agg[k].key
     /\ \A j \in 1..Len(out.agg) :
           /\ PricedOn(out.agg[j].key) # {}
           /\ out.agg[j].n = Cardinality(PricedOn(out.agg[j].key))
           /\ out.agg[j].sum = SumOver(PricedOn(out.agg[j].key),
                                       LAMBDA i : FRows[i][avg_price_col(df)])

C8_Witness ==
  /\ Done
  /\ Len(out.agg) >= 2
  /\ \E j \in 1..Len(out.agg) : out.agg[j].n >= 2
  /\ Cardinality(Priced) < Len(FRows)

(* C9: without a Total Volume column the volume metric is N/A and the     *)
(* volume chart gives way to a note, and the pass ends as it does, with   *)
(* the same other outputs, as for the same table with that column.        *)
VolumeChoices == {10, NA}

WithColumn(d, c, v) ==
  LET cols == SubSeqOf(AllHeaders,
                 [j \in 1..Len(AllHeaders) |->
                     AllHeaders[j] = c \/ AllHeaders[j] \in Range(d.columns)])
  IN [columns |-> cols,
      rows |-> [i \in 1..Len(d.rows) |->
                  [h \in Range(cols) |-> IF h = c THEN v[i] ELSE d.rows[i][h]]]]

WithoutColumn(d, c) ==
  LET cols == SubSeqOf(d.columns, [j \in 1..Len(d.columns) |-> d.columns[j] # c])
  IN [columns |-> cols,
      rows |-> [i \in 1..Len(d.rows) |-> [h \in Range(cols) |-> d.rows[i][h]]]]

(* the CSV text without its j-th field *)
CsvWithout(csv, j) ==
  [l \in 1..Len(csv) |-> SubSeq(csv[l], 1, j - 1) \o SubSeq(csv[l], j + 1, Len(csv[l]))]

IndexOf(s, x) == CHOOSE j \in 1..Len(s) : s[j] = x

C9_NoVolumeColumn ==
  (total_vol_col(df) = NoCol /\ Len(df.rows) # 0)
  => /\ Done => (out.kpi_volume.na /\ out.vol_info /\ out.vol = <<>>)
     /\ \A v \in [1..Len(df.rows) -> VolumeChoices] :
          LET wide == WithColumn(df, "Total Volume", v)
              with == main(wide, sel_regions, sel_type, dr, FALSE)
          IN /\ with.status = out.status
             /\ with.kpi_price = out.kpi_price
             /\ with.kpi_rows = out.kpi_rows
             /\ with.agg = out.agg
             /\ with.ts_info = out.ts_info
             /\ Done => WithoutColumn(with.filtered, "Total Volume") = out.filtered
             /\ CsvWithout(with.csv_bytes, IndexOf(wide.columns, "Total Volume"))
                  = out.csv_bytes
             /\ Done => /\ ~with.kpi_volume.na
                        /\ with.vol_info = (region_col(df) = NoCol)

C9_Witness ==
  /\ total_vol_col(df) = NoCol
  /\ Done
  /\ out.kpi_volume.na /\ out.vol_info
  /\ ~out.kpi_price.na
  /\ Len(out.agg) >= 2
  /\ region_col(df) # NoCol
  /\ Len(FRows) < Len(df.rows)

(* C10: under a range of two parseable bounds no row without a date is in *)
(* the FilteredView; under the default range, with no region or type      *)
(* predicate in force, the FilteredView is the Dataset without its        *)
(* missing-date rows.                                                     *)
C10_MissingDatesExcluded ==
  (Done /\ DateActive)
  => /\ \A i \in 1..Len(FRows) : FRows[i][date_col(df)] # NA
     /\ (dr = default_dr(df) /\ ~RegionActive /\ ~TypeActive)
          => FRows = RowsWhere(LAMBDA r : r[date_col(df)] # NA)

C10_Witness ==
  /\ Done /\ DateActive
  /\ dr = default_dr(df) /\ ~RegionActive /\ ~TypeActive
  /\ FRows # <<>>
  /\ Len(FRows) < Len(df.rows)

====
